---- MODULE Spec2Model ----
(***************************************************************************)
(* RCC driver for the STM32F446RE (Src/RCC_prog.c).                        *)
(*                                                                         *)
(* The driver owns no software state: every operation is a sequence of     *)
(* volatile reads and writes of the RCC register block, some of them       *)
(* busy-poll loops on a status bit that the hardware drives.  The model    *)
(* keeps the register block, the position of the execution context in the  *)
(* function it runs, the call's arguments and the value of the last        *)
(* volatile read; one step is one volatile access.  An interrupt handler   *)
(* that calls the driver is a second context, which preempts the first and *)
(* runs to its return.  A 32-bit register is                               *)
(* the set of its bit positions that are 1, so that | is union, & is       *)
(* intersection, ~ is complement in 0..31 and << drops what leaves the     *)
(* word.  (1 << 31) is evaluated on int in the source; every build for the *)
(* target yields 0x80000000 for it, which is what Shl gives.)              *)
(***************************************************************************)
EXTENDS Integers, FiniteSets, Sequences, TLC

VARIABLES
    RCC,     \* the register block: register name -> set of bits that are 1
    pc,      \* position of the execution context
    frame,   \* the running (or last) call: <<function name, arguments...>>
    rd,      \* value of the last volatile read (the temporary of a RMW)
    ret,     \* value returned by the last call, -1 while none
    pre,     \* history: the register block when the call was entered
    nw,      \* history: writes per register since the call was entered
    last,    \* history: per register, the value last read in this call
    isr      \* the interrupt handler's call: <<"idle">> while it has not
             \* run, else <<position, function name, PeripheralName, value
             \* read, value returned, position of the preempted context>>

vars == <<RCC, pc, frame, rd, ret, pre, nw, last, isr>>

\* the function of the call and its arguments, by the names of the source
arg_fn == frame[1]
arg_Clk_Type == frame[2]
arg_Status == frame[3]
arg_SYSClkType == frame[2]
arg_HSE_MODE == frame[2]
arg_PLL_Multiplexer == frame[2]
arg_PLL_Division == frame[3]
arg_Src == frame[4]
arg_PeripheralName == frame[2]

----------------------------------------------------------------------------
(* 32-bit words as sets of bit positions *)

WordBits == 0..31

\* the bits of a non-negative constant below 2^31
Bits(n) == {i \in 0..30 : (n \div (2^i)) % 2 = 1}

Shl(S, k) == {i + k : i \in S} \cap WordBits
Shr(S, k) == {i - k : i \in S} \cap WordBits
Not(S) == WordBits \ S
And(S, T) == S \cap T
Or(S, T) == S \cup T

RECURSIVE Value(_)
\* the number a word below 2^31 stands for
Value(S) == IF S = {} THEN 0
            ELSE LET i == CHOOSE j \in S : TRUE IN 2^i + Value(S \ {i})

\* the field of `width` bits of S that starts at bit `lo`
Field(S, lo, width) == Value(And(Shr(S, lo), Bits(2^width - 1)))

Zero == {}
Ones == WordBits

----------------------------------------------------------------------------
(* the register block and the enumerations of RCC_private.h *)

Regs == {"CR", "PLLCFGR", "CFGR", "AHB1ENR", "AHB2ENR", "AHB3ENR",
         "APB1ENR", "APB2ENR"}

\* CLK_t: a clock source is the position of its enable bit in CR
HSI == 0
HSE == 16
PLL == 24
CLK_t == {HSI, HSE, PLL}

\* STATUS_t
ON == "ON"
OFF == "OFF"
STATUS_t == {ON, OFF}

\* SYS_CLK_t: the last system clock option
SYSPLLP == 3

\* HSE_t
BYPASSED == "BYPASSED"
NOT_BYPASSED == "NOT_BYPASSED"

----------------------------------------------------------------------------
(* one volatile access per step *)

NoWrites == [r \in Regs |-> 0]
NoReads == [r \in Regs |-> {}]

\* entering a function: the arguments are bound, nothing has been accessed;
\* what is remembered of the interrupt handler belongs to the call before
Call(f, entry) ==
    /\ pc \in {"idle", "ret"}
    /\ frame' = f
    /\ pc' = entry
    /\ rd' = Zero
    /\ ret' = -1
    /\ pre' = RCC
    /\ nw' = NoWrites
    /\ last' = NoReads
    /\ isr' = <<"idle">>
    /\ UNCHANGED RCC

\* a volatile read of RCC->reg into the temporary
Read(reg, next) ==
    /\ rd' = RCC[reg]
    /\ last' = [last EXCEPT ![reg] = {RCC[reg]}]
    /\ pc' = next
    /\ UNCHANGED <<RCC, frame, ret, pre, nw, isr>>

\* a volatile write of val to RCC->reg
Write(reg, val, next) ==
    /\ RCC' = [RCC EXCEPT ![reg] = val]
    /\ nw' = [nw EXCEPT ![reg] = @ + 1]
    /\ pc' = next
    /\ UNCHANGED <<frame, rd, ret, pre, last, isr>>

\* return code;
Return(code) ==
    /\ ret' = code
    /\ pc' = "ret"
    /\ UNCHANGED <<RCC, frame, rd, pre, nw, last, isr>>

\* one evaluation of a busy-poll loop condition on RCC->reg: the register is
\* read; the loop is left (and what follows it happens) when the condition
\* is false, and runs once more otherwise
Poll(reg, spin, next, code) ==
    /\ rd' = RCC[reg]
    /\ last' = [last EXCEPT ![reg] = {RCC[reg]}]
    /\ IF spin
         THEN pc' = pc /\ ret' = ret
         ELSE pc' = next /\ ret' = code
    /\ UNCHANGED <<RCC, frame, pre, nw, isr>>

----------------------------------------------------------------------------
(* the hardware: it drives the status bits of CR and CFGR at any time *)

\* the ready bit of clock source c (bit c + 1 of CR) changes
HW_Ready(c) ==
    /\ RCC' = [RCC EXCEPT !["CR"] =
                 IF c + 1 \in @ THEN @ \ {c + 1} ELSE @ \cup {c + 1}]
    /\ UNCHANGED <<pc, frame, rd, ret, pre, nw, last, isr>>

\* a bit of the switch status field SWS (bits [3:2] of CFGR) changes
HW_SWS(b) ==
    /\ b \in {2, 3}
    /\ RCC' = [RCC EXCEPT !["CFGR"] =
                 IF b \in @ THEN @ \ {b} ELSE @ \cup {b}]
    /\ UNCHANGED <<pc, frame, rd, ret, pre, nw, last, isr>>

\* responsive hardware: the ready bit of clock source c is driven to the
\* value of its enable bit, and is not touched once it has that value
HW_Follow(c) ==
    /\ (c \in RCC["CR"]) # (c + 1 \in RCC["CR"])
    /\ RCC' = [RCC EXCEPT !["CR"] =
                 IF c \in @ THEN @ \cup {c + 1} ELSE @ \ {c + 1}]
    /\ UNCHANGED <<pc, frame, rd, ret, pre, nw, last, isr>>

----------------------------------------------------------------------------
(* RCC_SetClkStatus, RCC_prog.c 16-32 *)

\* the enable as an assignment, RCC->CR = (1 << Clk_Type), for the |=
SetClkStatus_Value_Assign(v, Clk_Type, Status) ==
    IF Status = ON
      THEN Shl(Bits(1), Clk_Type)
      ELSE And(v, Not(Shl(Bits(1), Clk_Type)))

\* the value stored by RCC->CR |= (1 << Clk_Type) / RCC->CR &= ~(1 << Clk_Type)
\* from the value v that was read
SetClkStatus_Value(v, Clk_Type, Status) ==
    IF Status = ON
      THEN Or(v, Shl(Bits(1), Clk_Type))
      ELSE And(v, Not(Shl(Bits(1), Clk_Type)))

\* the loop condition ((RCC->CR >> (Clk_Type + 1)) & 1) == 0
SetClkStatus_Waiting(v, Clk_Type) ==
    And(Shr(v, Clk_Type + 1), Bits(1)) = Bits(0)

Call_SetClkStatus(Clk_Type, Status) ==
    Call(<<"RCC_SetClkStatus", Clk_Type, Status>>, "clk_rd")

SetClkStatus_rd ==
    /\ pc = "clk_rd"
    /\ Read("CR", "clk_wr")

SetClkStatus_wr ==
    /\ pc = "clk_wr"
    /\ Write("CR", SetClkStatus_Value(rd, arg_Clk_Type, arg_Status),
             "clk_wait")

SetClkStatus_wait ==
    /\ pc = "clk_wait"
    /\ Poll("CR", SetClkStatus_Waiting(RCC["CR"], arg_Clk_Type), "ret", 0)

RCC_SetClkStatus ==
    \/ SetClkStatus_rd
    \/ SetClkStatus_wr
    \/ SetClkStatus_wait

----------------------------------------------------------------------------
(* RCC_SetSysClk, RCC_prog.c 42-58 *)

\* the range check with >= for >: the last option is rejected too
SetSysClk_Invalid_AtBoundary(SYSClkType) == SYSClkType >= SYSPLLP

\* SYSClkType > SYSPLLP
SetSysClk_Invalid(SYSClkType) == SYSClkType > SYSPLLP

\* the clear with the mask of SWS, (0b11 << 2), for that of SW
SetSysClk_Clear_WrongField(v) == And(v, Not(Shl(Bits(3), 2)))

\* the value stored by RCC->CFGR &= ~(0b11 << 0)
SetSysClk_Clear(v) == And(v, Not(Shl(Bits(3), 0)))

\* the set shifted to bit 1, (SYSClkType << 1), for (SYSClkType << 0)
SetSysClk_Set_Shifted(v, SYSClkType) == Or(v, Shl(Bits(SYSClkType), 1))

\* the value stored by RCC->CFGR |= (SYSClkType << 0)
SetSysClk_Set(v, SYSClkType) == Or(v, Shl(Bits(SYSClkType), 0))

\* the wait polling the selector SW, (RCC->CFGR >> 0), for the status SWS
SetSysClk_Waiting_ReadsSW(v, SYSClkType) ==
    And(Shr(v, 0), Bits(3)) # Bits(SYSClkType)

\* the loop condition ((RCC->CFGR >> 2) & 0b11) != SYSClkType
SetSysClk_Waiting(v, SYSClkType) ==
    And(Shr(v, 2), Bits(3)) # Bits(SYSClkType)

Call_SetSysClk(SYSClkType) ==
    Call(<<"RCC_SetSysClk", SYSClkType>>, "sys_clr_rd")

\* the range check, then the read of the first read-modify-write
SetSysClk_clr_rd ==
    /\ pc = "sys_clr_rd"
    /\ IF SetSysClk_Invalid(arg_SYSClkType)
         THEN Return(1)
         ELSE Read("CFGR", "sys_clr_wr")

SetSysClk_clr_wr ==
    /\ pc = "sys_clr_wr"
    /\ Write("CFGR", SetSysClk_Clear(rd), "sys_set_rd")

SetSysClk_set_rd ==
    /\ pc = "sys_set_rd"
    /\ Read("CFGR", "sys_set_wr")

SetSysClk_set_wr ==
    /\ pc = "sys_set_wr"
    /\ Write("CFGR", SetSysClk_Set(rd, arg_SYSClkType), "sys_wait")

SetSysClk_wait ==
    /\ pc = "sys_wait"
    /\ Poll("CFGR", SetSysClk_Waiting(RCC["CFGR"], arg_SYSClkType), "ret", 0)

RCC_SetSysClk ==
    \/ SetSysClk_clr_rd
    \/ SetSysClk_clr_wr
    \/ SetSysClk_set_rd
    \/ SetSysClk_set_wr
    \/ SetSysClk_wait

----------------------------------------------------------------------------
(* RCC_HSE_Mode, RCC_prog.c 68-78 *)

\* the bypass bit taken for HSEON, bit 16, for HSEBYP, bit 18
HSE_Mode_Value_EnableBit(v, HSE_MODE) ==
    IF HSE_MODE = BYPASSED
      THEN Or(v, Shl(Bits(1), 16))
      ELSE And(v, Not(Shl(Bits(1), 16)))

\* the value stored by RCC->CR |= (1 << 18) / RCC->CR &= ~(1 << 18)
HSE_Mode_Value(v, HSE_MODE) ==
    IF HSE_MODE = BYPASSED
      THEN Or(v, Shl(Bits(1), 18))
      ELSE And(v, Not(Shl(Bits(1), 18)))

Call_HSE_Mode(HSE_MODE) ==
    Call(<<"RCC_HSE_Mode", HSE_MODE>>, "hse_rd")

HSE_Mode_rd ==
    /\ pc = "hse_rd"
    /\ IF arg_HSE_MODE \in {BYPASSED, NOT_BYPASSED}
         THEN Read("CR", "hse_wr")
         ELSE Return(1)

HSE_Mode_wr ==
    /\ pc = "hse_wr"
    /\ Write("CR", HSE_Mode_Value(rd, arg_HSE_MODE), "hse_ret")

HSE_Mode_ret ==
    /\ pc = "hse_ret"
    /\ Return(0)

RCC_HSE_Mode ==
    \/ HSE_Mode_rd
    \/ HSE_Mode_wr
    \/ HSE_Mode_ret

----------------------------------------------------------------------------
(* RCC_PLL_Config, RCC_prog.c 89-144 *)

\* the disable clearing PLLRDY, bit 25, for PLLON, bit 24
PLL_Disable_ReadyBit(v) == And(v, Not(Shl(Bits(1), 25)))

\* the value stored by RCC->CR &= ~(1 << 24)
PLL_Disable(v) == And(v, Not(Shl(Bits(1), 24)))

\* the value stored by RCC->CR |= (1 << 24)
PLL_Enable(v) == Or(v, Shl(Bits(1), 24))

\* the wait for the PLL to unlock with the condition of the wait for lock
PLL_WaitingUnlock_Inverted(v) == And(Shr(v, 25), Bits(1)) = Bits(0)

\* the loop condition (RCC->CR >> 25) & 1 of the wait for the PLL to unlock
PLL_WaitingUnlock(v) == And(Shr(v, 25), Bits(1)) # Bits(0)

\* the loop condition !((RCC->CR >> 25) & 1) of the wait for the PLL to lock
PLL_WaitingLock(v) == And(Shr(v, 25), Bits(1)) = Bits(0)

\* the source test without its else branch: every source is taken
PLL_SrcValid_NoElse(Src) == Src \in CLK_t

\* Src == HSI or Src == HSE: the else branch returns 1
PLL_SrcValid(Src) == Src = HSI \/ Src = HSE

\* the value stored by RCC->PLLCFGR &= ~(1 << 22) / RCC->PLLCFGR |= (1 << 22)
PLL_SrcValue(v, Src) ==
    IF Src = HSI
      THEN And(v, Not(Shl(Bits(1), 22)))
      ELSE Or(v, Shl(Bits(1), 22))

\* the range check of N with its upper end one too high
PLL_MultiplexerInvalid_OffByOne(PLL_Multiplexer) ==
    PLL_Multiplexer < 50 \/ PLL_Multiplexer > 433

\* PLL_Multiplexer < 50 || PLL_Multiplexer > 432
PLL_MultiplexerInvalid(PLL_Multiplexer) ==
    PLL_Multiplexer < 50 \/ PLL_Multiplexer > 432

\* the range check of the division with >= for >: 63 is rejected
PLL_DivisionInvalid_AtBoundary(PLL_Division) ==
    PLL_Division < 2 \/ PLL_Division >= 63

\* PLL_Division < 2 || PLL_Division > 63
PLL_DivisionInvalid(PLL_Division) ==
    PLL_Division < 2 \/ PLL_Division > 63

\* the value stored by RCC->PLLCFGR &= ~(0x3F << 0)
PLL_ClearM(v) == And(v, Not(Shl(Bits(63), 0)))

\* the clear of PLLN with a mask one bit short, (0xFF << 6)
PLL_ClearN_ShortMask(v) == And(v, Not(Shl(Bits(255), 6)))

\* the value stored by RCC->PLLCFGR &= ~(0x1FF << 6)
PLL_ClearN(v) == And(v, Not(Shl(Bits(511), 6)))

\* the value stored by RCC->PLLCFGR |= (PLL_Division << 0)
PLL_SetM(v, PLL_Division) == Or(v, Shl(Bits(PLL_Division), 0))

\* the value stored by RCC->PLLCFGR |= (PLL_Multiplexer << 6)
PLL_SetN(v, PLL_Multiplexer) == Or(v, Shl(Bits(PLL_Multiplexer), 6))

\* the cases of switch (PLL_Division): the others take the default, return 1
PLL_PCases == {2, 4, 6, 8}

\* the code each case of the switch puts in PLLP[1:0]
PLL_PCode(PLL_Division) ==
    CASE PLL_Division = 2 -> 0
      [] PLL_Division = 4 -> 1
      [] PLL_Division = 6 -> 2
      [] PLL_Division = 8 -> 3

\* the value the case of PLL_Division stores in RCC->PLLCFGR:
\* (RCC->PLLCFGR & ~(0x3 << 16)) | (code << 16)
PLL_PValue(v, PLL_Division) ==
    Or(And(v, Not(Shl(Bits(3), 16))), Shl(Bits(PLL_PCode(PLL_Division)), 16))

Call_PLL_Config(PLL_Multiplexer, PLL_Division, Src) ==
    Call(<<"RCC_PLL_Config", PLL_Multiplexer, PLL_Division, Src>>,
         "pll_dis_rd")

PLL_Config_dis_rd ==
    /\ pc = "pll_dis_rd"
    /\ Read("CR", "pll_dis_wr")

PLL_Config_dis_wr ==
    /\ pc = "pll_dis_wr"
    /\ Write("CR", PLL_Disable(rd), "pll_unlock")

\* the wait for PLLRDY to clear; the source is tested when the loop is left
PLL_Config_unlock ==
    /\ pc = "pll_unlock"
    /\ Poll("CR", PLL_WaitingUnlock(RCC["CR"]),
            IF PLL_SrcValid(arg_Src) THEN "pll_src_rd" ELSE "ret",
            IF PLL_SrcValid(arg_Src) THEN ret ELSE 1)

PLL_Config_src_rd ==
    /\ pc = "pll_src_rd"
    /\ Read("PLLCFGR", "pll_src_wr")

\* the write of the source bit; the two range checks follow it
PLL_Config_src_wr ==
    /\ pc = "pll_src_wr"
    /\ Write("PLLCFGR", PLL_SrcValue(rd, arg_Src), "pll_check")

PLL_Config_check ==
    /\ pc = "pll_check"
    /\ IF \/ PLL_MultiplexerInvalid(arg_PLL_Multiplexer)
          \/ PLL_DivisionInvalid(arg_PLL_Division)
         THEN Return(1)
         ELSE Read("PLLCFGR", "pll_clrM_wr")

PLL_Config_clrM_wr ==
    /\ pc = "pll_clrM_wr"
    /\ Write("PLLCFGR", PLL_ClearM(rd), "pll_clrN_rd")

PLL_Config_clrN_rd ==
    /\ pc = "pll_clrN_rd"
    /\ Read("PLLCFGR", "pll_clrN_wr")

PLL_Config_clrN_wr ==
    /\ pc = "pll_clrN_wr"
    /\ Write("PLLCFGR", PLL_ClearN(rd), "pll_setM_rd")

PLL_Config_setM_rd ==
    /\ pc = "pll_setM_rd"
    /\ Read("PLLCFGR", "pll_setM_wr")

PLL_Config_setM_wr ==
    /\ pc = "pll_setM_wr"
    /\ Write("PLLCFGR", PLL_SetM(rd, arg_PLL_Division), "pll_setN_rd")

PLL_Config_setN_rd ==
    /\ pc = "pll_setN_rd"
    /\ Read("PLLCFGR", "pll_setN_wr")

PLL_Config_setN_wr ==
    /\ pc = "pll_setN_wr"
    /\ Write("PLLCFGR", PLL_SetN(rd, arg_PLL_Multiplexer), "pll_P_rd")

\* the switch: a case reads PLLCFGR, the default returns 1
PLL_Config_P_rd ==
    /\ pc = "pll_P_rd"
    /\ IF arg_PLL_Division \in PLL_PCases
         THEN Read("PLLCFGR", "pll_P_wr")
         ELSE Return(1)

PLL_Config_P_wr ==
    /\ pc = "pll_P_wr"
    /\ Write("PLLCFGR", PLL_PValue(rd, arg_PLL_Division), "pll_en_rd")

PLL_Config_en_rd ==
    /\ pc = "pll_en_rd"
    /\ Read("CR", "pll_en_wr")

PLL_Config_en_wr ==
    /\ pc = "pll_en_wr"
    /\ Write("CR", PLL_Enable(rd), "pll_lock")

PLL_Config_lock ==
    /\ pc = "pll_lock"
    /\ Poll("CR", PLL_WaitingLock(RCC["CR"]), "ret", 0)

RCC_PLL_Config ==
    \/ PLL_Config_dis_rd
    \/ PLL_Config_dis_wr
    \/ PLL_Config_unlock
    \/ PLL_Config_src_rd
    \/ PLL_Config_src_wr
    \/ PLL_Config_check
    \/ PLL_Config_clrM_wr
    \/ PLL_Config_clrN_rd
    \/ PLL_Config_clrN_wr
    \/ PLL_Config_setM_rd
    \/ PLL_Config_setM_wr
    \/ PLL_Config_setN_rd
    \/ PLL_Config_setN_wr
    \/ PLL_Config_P_rd
    \/ PLL_Config_P_wr
    \/ PLL_Config_en_rd
    \/ PLL_Config_en_wr
    \/ PLL_Config_lock

----------------------------------------------------------------------------
(* RCC_AHB1_EnableClk .. RCC_APB2_DisableClk, RCC_prog.c 152-294 *)

\* the ten gating functions
GateEnableFns == {"RCC_AHB1_EnableClk", "RCC_AHB2_EnableClk",
                  "RCC_AHB3_EnableClk", "RCC_APB1_EnableClk",
                  "RCC_APB2_EnableClk"}
GateDisableFns == {"RCC_AHB1_DisableClk", "RCC_AHB2_DisableClk",
                   "RCC_AHB3_DisableClk", "RCC_APB1_DisableClk",
                   "RCC_APB2_DisableClk"}
GateFns == GateEnableFns \cup GateDisableFns

\* the enable register function fn works on
GateReg(fn) ==
    CASE fn \in {"RCC_AHB1_EnableClk", "RCC_AHB1_DisableClk"} -> "AHB1ENR"
      [] fn \in {"RCC_AHB2_EnableClk", "RCC_AHB2_DisableClk"} -> "AHB2ENR"
      [] fn \in {"RCC_AHB3_EnableClk", "RCC_AHB3_DisableClk"} -> "AHB3ENR"
      [] fn \in {"RCC_APB1_EnableClk", "RCC_APB1_DisableClk"} -> "APB1ENR"
      [] fn \in {"RCC_APB2_EnableClk", "RCC_APB2_DisableClk"} -> "APB2ENR"

GateRegs == {GateReg(f) : f \in GateFns}

\* the range check with 32 for 31
Gate_Invalid_OffByOne(PeripheralName) == PeripheralName > 32

\* PeripheralName > 31
Gate_Invalid(PeripheralName) == PeripheralName > 31

\* the enable as an assignment, = (1 << PeripheralName), for the |=
Gate_EnableValue_Assign(v, PeripheralName) == Shl(Bits(1), PeripheralName)

\* the value stored by RCC->xxxENR |= (1 << PeripheralName)
Gate_EnableValue(v, PeripheralName) == Or(v, Shl(Bits(1), PeripheralName))

\* the disable without the complement: &= (1 << PeripheralName)
Gate_DisableValue_NoComplement(v, PeripheralName) ==
    And(v, Shl(Bits(1), PeripheralName))

\* the value stored by RCC->xxxENR &= ~(1 << PeripheralName)
Gate_DisableValue(v, PeripheralName) ==
    And(v, Not(Shl(Bits(1), PeripheralName)))

Call_Gate(fn, PeripheralName) ==
    Call(<<fn, PeripheralName>>, "gate_rd")

\* the range check, then the read of the read-modify-write
Gate_rd ==
    /\ pc = "gate_rd"
    /\ IF Gate_Invalid(arg_PeripheralName)
         THEN Return(1)
         ELSE Read(GateReg(arg_fn), "gate_wr")

\* the read-modify-write as one access: the write works on the register as
\* it is now, not on the value read before
Gate_wr_Atomic ==
    /\ pc = "gate_wr"
    /\ Write(GateReg(arg_fn),
             IF arg_fn \in GateEnableFns
               THEN Gate_EnableValue(RCC[GateReg(arg_fn)], arg_PeripheralName)
               ELSE Gate_DisableValue(RCC[GateReg(arg_fn)],
                                      arg_PeripheralName),
             "gate_ret")

Gate_wr ==
    /\ pc = "gate_wr"
    /\ Write(GateReg(arg_fn),
             IF arg_fn \in GateEnableFns
               THEN Gate_EnableValue(rd, arg_PeripheralName)
               ELSE Gate_DisableValue(rd, arg_PeripheralName),
             "gate_ret")

Gate_ret ==
    /\ pc = "gate_ret"
    /\ Return(0)

RCC_Gate ==
    \/ Gate_rd
    \/ Gate_wr
    \/ Gate_ret

----------------------------------------------------------------------------
(* an interrupt handler that calls a gating function, RCC_prog.c 152-294:
   it preempts the execution context between two of its steps and runs to
   its return before that context takes another step *)

isr_pc == isr[1]
isr_fn == isr[2]
isr_PeripheralName == isr[3]
isr_rd == isr[4]
isr_ret == isr[5]
isr_at == isr[6]

\* the handler is between its entry and its return
ISR_Running == isr_pc \notin {"idle", "ret"}

ISR_Step(next, val, code) ==
    /\ isr' = <<next, isr_fn, isr_PeripheralName, val, code, isr_at>>
    /\ UNCHANGED <<pc, frame, rd, ret, pre, nw, last>>

\* the interrupt is taken, once per call of the preempted context, while
\* that context is in a gating function or has returned from it
ISR_Call_Gate(fn, PeripheralName) ==
    /\ isr_pc = "idle"
    /\ pc \in {"gate_rd", "gate_wr", "gate_ret", "ret"}
    /\ isr' = <<"gate_rd", fn, PeripheralName, Zero, -1, pc>>
    /\ UNCHANGED <<RCC, pc, frame, rd, ret, pre, nw, last>>

ISR_Gate_rd ==
    /\ isr_pc = "gate_rd"
    /\ IF Gate_Invalid(isr_PeripheralName)
         THEN ISR_Step("ret", isr_rd, 1)
         ELSE ISR_Step("gate_wr", RCC[GateReg(isr_fn)], isr_ret)
    /\ UNCHANGED RCC

ISR_Gate_wr ==
    /\ isr_pc = "gate_wr"
    /\ RCC' = [RCC EXCEPT ![GateReg(isr_fn)] =
                 IF isr_fn \in GateEnableFns
                   THEN Gate_EnableValue(isr_rd, isr_PeripheralName)
                   ELSE Gate_DisableValue(isr_rd, isr_PeripheralName)]
    /\ ISR_Step("gate_ret", isr_rd, isr_ret)

ISR_Gate_ret ==
    /\ isr_pc = "gate_ret"
    /\ ISR_Step("ret", isr_rd, 0)
    /\ UNCHANGED RCC

ISR_RCC_Gate ==
    \/ ISR_Gate_rd
    \/ ISR_Gate_wr
    \/ ISR_Gate_ret

----------------------------------------------------------------------------
(* the arguments the calls are made with, and the register contents the    *)
(* driver is entered with                                                  *)

\* SYS_CLK_t arguments: 0 .. MaxSysClkArg
MaxSysClkArg == 5

\* positions passed to the gating functions: the lowest and the highest bit
\* of a register, and the positions past it up to MaxPeripheralArg
MaxPeripheralArg == 33
PeripheralArgs == {0, 31} \cup (32..MaxPeripheralArg)

\* PLL_Multiplexer: both ends of [50, 432], the values next to them and a
\* value between them
PLL_MultiplexerArgs == {49, 50, 336, 432, 433}

\* PLL_Division: both ends of [2, 63], the values next to them, the cases
\* of the switch and a value between them
PLL_DivisionArgs == {1, 2, 3, 4, 6, 8, 63, 64}

\* HSE_t arguments: the two modes and a value that is neither
HSE_ModeArgs == {BYPASSED, NOT_BYPASSED, "OTHER"}

\* a register is entered all zeros or all ones: each bit has both values
RegInit == {Zero, Ones}

\* the registers in `varied` start with any content of RegInit, the others 0
InitRegs(varied) ==
    /\ RCC \in [Regs -> RegInit]
    /\ \A r \in Regs \ varied : RCC[r] = Zero
    /\ pc = "idle"
    /\ frame = <<"none">>
    /\ rd = Zero
    /\ ret = -1
    /\ pre = RCC
    /\ nw = NoWrites
    /\ last = NoReads
    /\ isr = <<"idle">>

----------------------------------------------------------------------------
(* specifications *)

\* clock sources: RCC_SetClkStatus and RCC_HSE_Mode on CR, the hardware
\* driving the three ready bits
InitClk == InitRegs({"CR"})

NextClk ==
    \/ \E c \in CLK_t, s \in STATUS_t : Call_SetClkStatus(c, s)
    \/ RCC_SetClkStatus
    \/ \E m \in HSE_ModeArgs : Call_HSE_Mode(m)
    \/ RCC_HSE_Mode
    \/ \E c \in CLK_t : HW_Ready(c)

SpecClk == InitClk /\ [][NextClk]_vars

\* system clock switch: RCC_SetSysClk on CFGR, the hardware driving SWS
InitSys == InitRegs({"CFGR"})

NextSys ==
    \/ \E v \in 0..MaxSysClkArg : Call_SetSysClk(v)
    \/ RCC_SetSysClk
    \/ \E b \in {2, 3} : HW_SWS(b)

SpecSys == InitSys /\ [][NextSys]_vars

\* PLL configuration: RCC_PLL_Config on CR and PLLCFGR, both entered all
\* zeros or both all ones, the hardware driving PLLRDY
InitPLL == InitRegs({"CR", "PLLCFGR"}) /\ RCC["CR"] = RCC["PLLCFGR"]

NextPLL ==
    \/ \E n \in PLL_MultiplexerArgs, m \in PLL_DivisionArgs, src \in CLK_t :
          Call_PLL_Config(n, m, src)
    \/ RCC_PLL_Config
    \/ HW_Ready(PLL)

SpecPLL == InitPLL /\ [][NextPLL]_vars

\* peripheral clock gating: the ten functions on the five enable registers
InitGate == InitRegs(GateRegs) /\ \A r \in GateRegs : RCC[r] = RCC["AHB1ENR"]

NextGate ==
    \/ \E f \in GateFns, p \in PeripheralArgs : Call_Gate(f, p)
    \/ RCC_Gate

SpecGate == InitGate /\ [][NextGate]_vars

\* enabling: RCC_SetClkStatus(c, ON) on CR and the Enable function of every
\* domain for the last position of its register, each repeated at will, the
\* hardware driving the ready bits
EnableArgs == {31}

InitEnable ==
    /\ InitRegs(GateRegs \cup {"CR"})
    /\ \A r \in GateRegs : RCC[r] = RCC["CR"]

NextEnable ==
    \/ \E c \in CLK_t : Call_SetClkStatus(c, ON)
    \/ RCC_SetClkStatus
    \/ \E f \in GateEnableFns, p \in EnableArgs : Call_Gate(f, p)
    \/ RCC_Gate
    \/ \E c \in CLK_t : HW_Ready(c)

SpecEnable == InitEnable /\ [][NextEnable]_vars

\* the clock tree: RCC_SetClkStatus, RCC_SetSysClk and RCC_PLL_Config called
\* in any order on registers that start all zero, the hardware driving the
\* ready bits and SWS
ClocksClkArgs == {HSE, PLL}
ClocksSysClkArgs == 0..SYSPLLP
ClocksPLLArgs == {<<50, 2, HSI>>, <<50, 3, HSE>>}

InitClocks == InitRegs({})

NextClocks ==
    \/ \E c \in ClocksClkArgs, s \in STATUS_t : Call_SetClkStatus(c, s)
    \/ RCC_SetClkStatus
    \/ \E v \in ClocksSysClkArgs : Call_SetSysClk(v)
    \/ RCC_SetSysClk
    \/ \E a \in ClocksPLLArgs : Call_PLL_Config(a[1], a[2], a[3])
    \/ RCC_PLL_Config
    \/ \E c \in ClocksClkArgs : HW_Ready(c)
    \/ \E b \in {2, 3} : HW_SWS(b)

SpecClocks == InitClocks /\ [][NextClocks]_vars

\* RCC_SetClkStatus on responsive hardware: CR starts all zeros or all ones,
\* so with every ready bit equal to its enable bit; a call that has begun
\* keeps executing, and the hardware acts on every difference in the end
NextClkLive ==
    \/ \E c \in CLK_t, s \in STATUS_t : Call_SetClkStatus(c, s)
    \/ RCC_SetClkStatus
    \/ \E c \in CLK_t : HW_Follow(c)

SpecClkLive ==
    /\ InitClk
    /\ [][NextClkLive]_vars
    /\ WF_vars(RCC_SetClkStatus)
    /\ \A c \in CLK_t : WF_vars(HW_Follow(c))

\* two contexts gating bits of AHB1ENR and APB1ENR: the execution context
\* and an interrupt handler that preempts it at any point of its call or
\* after it
RaceFns == {"RCC_AHB1_EnableClk", "RCC_AHB1_DisableClk",
            "RCC_APB1_EnableClk", "RCC_APB1_DisableClk"}
RaceArgs == {0, 31}

InitRace == InitRegs({"AHB1ENR", "APB1ENR"})

NextRace ==
    \/ /\ ~ISR_Running
       /\ \/ \E f \in RaceFns, p \in RaceArgs : Call_Gate(f, p)
          \/ RCC_Gate
    \/ \E f \in RaceFns, p \in RaceArgs : ISR_Call_Gate(f, p)
    \/ ISR_RCC_Gate

SpecRace == InitRace /\ [][NextRace]_vars

\* the whole driver: any function may be called on any register contents,
\* with the hardware driving every status bit
Init == InitRegs(Regs)

Next ==
    \/ NextClk
    \/ NextSys
    \/ NextPLL
    \/ NextGate

Spec == Init /\ [][Next]_vars

----------------------------------------------------------------------------
(* claims *)

\* the last call was of function f and has returned
Returned(f) == pc = "ret" /\ arg_fn = f

\* C1: when RCC_SetClkStatus(c, s) returns, the ready bit of c (bit c + 1 of
\* CR), as read by the last evaluation of the wait loop, is 1 for s = ON and
\* 0 for s = OFF.
C1_ReadyReflectsStatus ==
    Returned("RCC_SetClkStatus") =>
        /\ arg_Status = ON => arg_Clk_Type + 1 \in rd
        /\ arg_Status = OFF => arg_Clk_Type + 1 \notin rd

\* the bits of PLLCFGR that belong to no field the driver configures
PLLCFGR_Rest == WordBits \ ((0..5) \cup (6..14) \cup (16..17) \cup {22})

\* C2: when RCC_PLL_Config(N, M, Src) has returned 0, PLLON (CR bit 24) and
\* PLLRDY (CR bit 25) were both read 1 by the read that ended the call and
\* PLLON is still 1, PLLCFGR holds M in [5:0], N in [14:6], the code of the
\* table 2->0, 4->1, 6->2, 8->3 in [17:16] and bit 22 = (Src = HSE), and
\* every other bit of PLLCFGR is as it was when the call was entered; only
\* N in [50,432], M in {2,4,6,8} and Src in {HSI, HSE} return 0.
C2_PLLConfigSuccess ==
    (Returned("RCC_PLL_Config") /\ ret = 0) =>
        /\ 24 \in rd /\ 25 \in rd /\ 24 \in RCC["CR"]
        /\ Field(RCC["PLLCFGR"], 0, 6) = arg_PLL_Division
        /\ Field(RCC["PLLCFGR"], 6, 9) = arg_PLL_Multiplexer
        /\ <<arg_PLL_Division, Field(RCC["PLLCFGR"], 16, 2)>>
              \in {<<2, 0>>, <<4, 1>>, <<6, 2>>, <<8, 3>>}
        /\ arg_Src \in {HSI, HSE}
        /\ (22 \in RCC["PLLCFGR"]) <=> (arg_Src = HSE)
        /\ RCC["PLLCFGR"] \cap PLLCFGR_Rest = pre["PLLCFGR"] \cap PLLCFGR_Rest
        /\ arg_PLL_Multiplexer \in 50..432

\* a successful call that rewrote every field: all ones before, HSI, M = 6
C2_Witness ==
    /\ Returned("RCC_PLL_Config") /\ ret = 0
    /\ arg_PLL_Division = 6 /\ arg_PLL_Multiplexer = 50 /\ arg_Src = HSI
    /\ pre["PLLCFGR"] = Ones

\* C3: every write of RCC_PLL_Config to PLLCFGR is made in a state where the
\* driver has cleared PLLON and not set it again (one write to CR so far,
\* bit 24 of CR is 0) and where its last read of CR showed PLLRDY = 0.
C3_WriteOnlyWhenUnlocked ==
    [][nw'["PLLCFGR"] > nw["PLLCFGR"] =>
          /\ nw["CR"] = 1
          /\ 24 \notin RCC["CR"]
          /\ last["CR"] # {}
          /\ \A v \in last["CR"] : 25 \notin v]_vars

\* the sixth write to PLLCFGR of a call entered with the PLL on and locked
C3_Witness ==
    /\ arg_fn = "RCC_PLL_Config"
    /\ nw["PLLCFGR"] = 6
    /\ 24 \in pre["CR"] /\ 25 \in pre["CR"]

\* a call of RCC_PLL_Config with a valid source and N outside [50,432]
\* has returned
C4_Case ==
    /\ Returned("RCC_PLL_Config")
    /\ arg_Src \in {HSI, HSE}
    /\ arg_PLL_Multiplexer \notin 50..432

\* C4 as stated: with N outside [50,432] and source HSI or HSE, the call
\* returns failure and PLLCFGR equals its value before the call.
C4_NothingWritten ==
    C4_Case => (ret = 1 /\ RCC["PLLCFGR"] = pre["PLLCFGR"])

\* C4 as amended: with N outside [50,432] and source HSI or HSE, the call
\* returns failure after exactly one write to PLLCFGR, the source selection:
\* bit 22 is 0 for HSI and 1 for HSE, and every other bit of PLLCFGR (the
\* M, N and P fields included) equals its value before the call.
C4_OnlySourceWritten ==
    C4_Case =>
        /\ ret = 1
        /\ nw["PLLCFGR"] = 1
        /\ (22 \in RCC["PLLCFGR"]) <=> (arg_Src = HSE)
        /\ RCC["PLLCFGR"] \ {22} = pre["PLLCFGR"] \ {22}

\* N = 433 with source HSE on a register whose source bit was 0
C4_Witness ==
    /\ C4_Case
    /\ arg_PLL_Multiplexer = 433 /\ arg_Src = HSE
    /\ 22 \notin pre["PLLCFGR"]

\* a call with a valid source, N in [50,432] and a division in [2,63] that
\* is not 2, 4, 6 or 8 has returned
C5_Case ==
    /\ Returned("RCC_PLL_Config")
    /\ arg_Src \in {HSI, HSE}
    /\ arg_PLL_Multiplexer \in 50..432
    /\ arg_PLL_Division \in (2..63) \ {2, 4, 6, 8}

\* C5: such a call returns failure with the M field and the N field holding
\* the new values, the P code [17:16] as before the call and PLLON cleared.
C5_PartialFailure ==
    C5_Case =>
        /\ ret = 1
        /\ Field(RCC["PLLCFGR"], 0, 6) = arg_PLL_Division
        /\ Field(RCC["PLLCFGR"], 6, 9) = arg_PLL_Multiplexer
        /\ Field(RCC["PLLCFGR"], 16, 2) = Field(pre["PLLCFGR"], 16, 2)
        /\ 24 \notin RCC["CR"]

\* N = 50, M = 3 on an enabled PLL whose fields were all ones
C5_Witness ==
    /\ C5_Case
    /\ arg_PLL_Multiplexer = 50 /\ arg_PLL_Division = 3
    /\ pre["PLLCFGR"] = Ones /\ 24 \in pre["CR"]

\* C6: a call of RCC_PLL_Config with a source that is neither HSI nor HSE
\* returns failure and has made no write to PLLCFGR, whatever N and the
\* division are.
C6_InvalidSourceNoWrite ==
    (Returned("RCC_PLL_Config") /\ arg_Src \notin {HSI, HSE}) =>
        /\ ret = 1
        /\ nw["PLLCFGR"] = 0
        /\ RCC["PLLCFGR"] = pre["PLLCFGR"]

\* source PLL with N and the division both valid
C6_Witness ==
    /\ Returned("RCC_PLL_Config") /\ arg_Src = PLL
    /\ arg_PLL_Multiplexer = 50 /\ arg_PLL_Division = 2

\* C7: RCC_SetSysClk(v) with v > 3 makes no register access at all (no
\* write, and no read, so the wait loop is never entered) and returns 1;
\* v = 3 is not rejected: when that call returns, it returns 0.
C7_SysClkRange ==
    /\ (arg_fn = "RCC_SetSysClk" /\ arg_SYSClkType > 3) =>
          /\ nw = NoWrites /\ last = NoReads
          /\ pc = "ret" => ret = 1
    /\ (Returned("RCC_SetSysClk") /\ arg_SYSClkType = 3) => ret = 0

\* a call with the first value past the boundary has returned 1
C7_Witness ==
    /\ Returned("RCC_SetSysClk") /\ arg_SYSClkType = 4 /\ ret = 1

\* C8: for v in 0..3, when RCC_SetSysClk(v) has returned it returned 0,
\* CFGR[1:0] = v, the read that ended the wait loop showed CFGR[3:2] = v and
\* bits [31:4] of CFGR are as they were when the call was entered; and every
\* value the driver writes to CFGR equals the value it read in bits [31:2].
C8_SysClkSwitch ==
    /\ [](( Returned("RCC_SetSysClk") /\ arg_SYSClkType \in 0..3) =>
            /\ ret = 0
            /\ Field(RCC["CFGR"], 0, 2) = arg_SYSClkType
            /\ Field(rd, 2, 2) = arg_SYSClkType
            /\ RCC["CFGR"] \cap (4..31) = pre["CFGR"] \cap (4..31))
    /\ [][nw'["CFGR"] > nw["CFGR"] =>
            RCC'["CFGR"] \ {0, 1} = rd \ {0, 1}]_vars

\* a switch from selector 3 to selector 2 has returned
C8_Witness ==
    /\ Returned("RCC_SetSysClk") /\ arg_SYSClkType = 2
    /\ Field(pre["CFGR"], 0, 2) = 3

\* a call of gating function f with a position in 0..31 has returned
C9_Case(f) ==
    Returned(f) /\ arg_PeripheralName \in 0..31

\* the call touched register reg alone, once, and returned success
C9_Frame(reg) ==
    /\ ret = 0
    /\ nw[reg] = 1
    /\ \A r \in Regs \ {reg} : nw[r] = 0 /\ RCC[r] = pre[r]

\* Enable (en) and Disable (dis) of the domain whose register is reg
C9_Domain(en, dis, reg) ==
    /\ C9_Case(en) =>
          /\ C9_Frame(reg)
          /\ RCC[reg] = pre[reg] \cup {arg_PeripheralName}
    /\ C9_Case(dis) =>
          /\ C9_Frame(reg)
          /\ RCC[reg] = pre[reg] \ {arg_PeripheralName}

\* C9: for each of the five domains and every position p in 0..31, Enable
\* returns success with the register = old OR (1 << p) and Disable returns
\* success with the register = old AND NOT (1 << p); no other register is
\* written or changed; after any sequence of such calls.
C9_GateFrame ==
    /\ C9_Domain("RCC_AHB1_EnableClk", "RCC_AHB1_DisableClk", "AHB1ENR")
    /\ C9_Domain("RCC_AHB2_EnableClk", "RCC_AHB2_DisableClk", "AHB2ENR")
    /\ C9_Domain("RCC_AHB3_EnableClk", "RCC_AHB3_DisableClk", "AHB3ENR")
    /\ C9_Domain("RCC_APB1_EnableClk", "RCC_APB1_DisableClk", "APB1ENR")
    /\ C9_Domain("RCC_APB2_EnableClk", "RCC_APB2_DisableClk", "APB2ENR")

\* bit 31 of APB2ENR disabled after bit 0 of AHB1ENR was enabled
C9_Witness ==
    /\ C9_Case("RCC_APB2_DisableClk")
    /\ arg_PeripheralName = 31 /\ 31 \in pre["APB2ENR"]
    /\ RCC["AHB1ENR"] = {0}

\* the ten gating functions, as the interface names them
C10_Functions ==
    {"RCC_AHB1_EnableClk", "RCC_AHB1_DisableClk", "RCC_AHB2_EnableClk",
     "RCC_AHB2_DisableClk", "RCC_AHB3_EnableClk", "RCC_AHB3_DisableClk",
     "RCC_APB1_EnableClk", "RCC_APB1_DisableClk", "RCC_APB2_EnableClk",
     "RCC_APB2_DisableClk"}

\* C10: a gating function called with a position greater than 31 makes no
\* register write (all registers are unchanged) and returns 1.
C10_GateRange ==
    (arg_fn \in C10_Functions /\ arg_PeripheralName > 31) =>
        /\ nw = NoWrites /\ RCC = pre
        /\ pc = "ret" => ret = 1

\* position 32 rejected by RCC_APB2_DisableClk after two enables on AHB1
C10_Witness ==
    /\ pc = "ret" /\ ret = 1
    /\ arg_fn = "RCC_APB2_DisableClk" /\ arg_PeripheralName = 32
    /\ RCC["AHB1ENR"] = {0, 31}

\* the ready flags of CR, which the hardware sets and clears
CR_ReadyBits == {c + 1 : c \in CLK_t}

\* C11: RCC_HSE_Mode(BYPASSED) returns 0 with bit 18 of CR set, and
\* RCC_HSE_Mode(NOT_BYPASSED) returns 0 with bit 18 cleared, each by one
\* write of CR that differs from the value read at bit 18 at most; any other
\* argument returns 1 and writes no register; and in every case each bit of
\* CR other than bit 18 that the hardware does not drive, and every other
\* register, is as it was when the call was entered.
C11_HSEMode ==
    /\ [](Returned("RCC_HSE_Mode") =>
            /\ arg_HSE_MODE = BYPASSED =>
                  ret = 0 /\ nw["CR"] = 1 /\ 18 \in RCC["CR"]
            /\ arg_HSE_MODE = NOT_BYPASSED =>
                  ret = 0 /\ nw["CR"] = 1 /\ 18 \notin RCC["CR"]
            /\ arg_HSE_MODE \notin {BYPASSED, NOT_BYPASSED} =>
                  ret = 1 /\ nw = NoWrites
            /\ RCC["CR"] \ ({18} \cup CR_ReadyBits)
                  = pre["CR"] \ ({18} \cup CR_ReadyBits)
            /\ \A r \in Regs \ {"CR"} : nw[r] = 0 /\ RCC[r] = pre[r])
    /\ [][(arg_fn = "RCC_HSE_Mode" /\ nw'["CR"] > nw["CR"]) =>
            RCC'["CR"] \ {18} = rd \ {18}]_vars

\* an HSE that was bypassed has been taken out of bypass
C11_Witness ==
    /\ Returned("RCC_HSE_Mode")
    /\ arg_HSE_MODE = NOT_BYPASSED
    /\ 18 \in pre["CR"]
    /\ 18 \notin RCC["CR"]

\* C12: every write of RCC_SetClkStatus(c, s) stores the value the call
\* read from CR with bit c set (s = ON) or cleared (s = OFF) and every other
\* bit unchanged; the call writes no register other than CR; and when it has
\* returned, each bit of CR other than bit c that the hardware does not
\* drive is as it was when the call was entered, so that an enable followed
\* by a disable leaves those bits as they were.
C12_SetClkFrame ==
    /\ [][(arg_fn = "RCC_SetClkStatus" /\ nw'["CR"] > nw["CR"]) =>
            /\ RCC'["CR"] \ {arg_Clk_Type} = rd \ {arg_Clk_Type}
            /\ arg_Clk_Type \in RCC'["CR"] <=> arg_Status = ON]_vars
    /\ [](arg_fn = "RCC_SetClkStatus" =>
            \A r \in Regs \ {"CR"} : nw[r] = 0 /\ RCC[r] = pre[r])
    /\ [](Returned("RCC_SetClkStatus") =>
            RCC["CR"] \ ({arg_Clk_Type} \cup CR_ReadyBits)
              = pre["CR"] \ ({arg_Clk_Type} \cup CR_ReadyBits))

\* the HSE, enabled by an earlier call on a CR that was all zero, has been
\* disabled again
C12_Witness ==
    /\ Returned("RCC_SetClkStatus")
    /\ arg_Status = OFF
    /\ arg_Clk_Type = HSE
    /\ pre["CR"] = {16, 17}
    /\ RCC["CR"] \ CR_ReadyBits = Zero

\* the arguments with which RCC_PLL_Config fails
C18_Failing ==
    \/ ~PLL_SrcValid(arg_Src)
    \/ PLL_MultiplexerInvalid(arg_PLL_Multiplexer)
    \/ PLL_DivisionInvalid(arg_PLL_Division)
    \/ arg_PLL_Division \notin PLL_PCases

\* C18: when RCC_PLL_Config has returned 1, which it does exactly for an
\* invalid source, N outside [50,432], M outside [2,63] or M outside
\* {2,4,6,8}, PLLON (CR bit 24) is 0 and the only write of CR was the
\* disable, whether or not the PLL was enabled and locked at entry.
C18_FailureLeavesPLLOff ==
    Returned("RCC_PLL_Config") =>
        /\ ret = 1 <=> C18_Failing
        /\ ret = 1 => 24 \notin RCC["CR"] /\ nw["CR"] = 1

\* a PLL that an earlier call enabled on a CR that was all zero, and that
\* had locked, is left disabled by a failing call
C18_Witness ==
    /\ Returned("RCC_PLL_Config")
    /\ ret = 1
    /\ pre["CR"] = {24, 25}
    /\ 24 \notin RCC["CR"]

\* C17: from the call of RCC_SetSysClk(v) to its return, the selector
\* CFGR[1:0] holds the value it had when the call was entered or v, never a
\* third value.
C17_OneStep ==
    (arg_fn = "RCC_SetSysClk" /\ pc # "idle") =>
        Field(RCC["CFGR"], 0, 2)
           \in {Field(pre["CFGR"], 0, 2), arg_SYSClkType}

\* C17 as amended: RCC_SetSysClk(v) with v in 0..3 switches the selector in
\* two writes: CFGR[1:0] holds the value it had at entry until the first
\* write, 0 from the first write to the second, and v from the second write
\* on; with v > 3 it keeps the value it had at entry.
C17_TwoSteps ==
    (arg_fn = "RCC_SetSysClk" /\ pc # "idle") =>
        /\ nw["CFGR"] \in 0..2
        /\ nw["CFGR"] = 0 =>
              Field(RCC["CFGR"], 0, 2) = Field(pre["CFGR"], 0, 2)
        /\ nw["CFGR"] = 1 => Field(RCC["CFGR"], 0, 2) = 0
        /\ nw["CFGR"] = 2 => Field(RCC["CFGR"], 0, 2) = arg_SYSClkType
        /\ arg_SYSClkType > 3 => nw["CFGR"] = 0

\* between the two writes of a switch from selector 3 to selector 2 the
\* selector is 0
C17_Witness ==
    /\ arg_fn = "RCC_SetSysClk"
    /\ pc = "sys_set_rd"
    /\ arg_SYSClkType = 2
    /\ Field(pre["CFGR"], 0, 2) = 3
    /\ Field(RCC["CFGR"], 0, 2) = 0

\* C13: RCC_SetClkStatus(c, ON) on a CR whose bit c is already set stores
\* the value it read, and a poll that finds the ready bit c + 1 set ends the
\* call at once with success; when the call has returned, it has returned 0
\* and CR, but for the ready flags the hardware drives, is as it was at
\* entry. An Enable function called for a position whose bit is already set
\* stores the value it read and returns 0 with every register as it was at
\* entry but for the ready flags. Hence a second enable changes nothing the
\* first one left.
C13_EnableIdempotent ==
    /\ [][(arg_fn = "RCC_SetClkStatus" /\ arg_Status = ON
              /\ arg_Clk_Type \in rd /\ nw'["CR"] > nw["CR"]) =>
            RCC'["CR"] = rd]_vars
    /\ [][(pc = "clk_wait" /\ arg_Status = ON /\ RCC' = RCC
              /\ arg_Clk_Type + 1 \in RCC["CR"]) =>
            (pc' = "ret" /\ ret' = 0)]_vars
    /\ [](( Returned("RCC_SetClkStatus") /\ arg_Status = ON
              /\ arg_Clk_Type \in pre["CR"]) =>
            /\ ret = 0
            /\ RCC["CR"] \ CR_ReadyBits = pre["CR"] \ CR_ReadyBits
            /\ \A r \in Regs \ {"CR"} : RCC[r] = pre[r])
    /\ [][(arg_fn \in GateEnableFns /\ arg_PeripheralName \in rd
              /\ nw'[GateReg(arg_fn)] > nw[GateReg(arg_fn)]) =>
            RCC'[GateReg(arg_fn)] = rd]_vars
    /\ [](( pc = "ret" /\ arg_fn \in GateEnableFns
              /\ arg_PeripheralName \in pre[GateReg(arg_fn)]) =>
            /\ ret = 0
            /\ \A r \in Regs \ {"CR"} : RCC[r] = pre[r]
            /\ RCC["CR"] \ CR_ReadyBits = pre["CR"] \ CR_ReadyBits)

\* the second of two enables of the HSE on a CR that was all zero has
\* returned: the first had set bit 16, the hardware bit 17
C13_Witness ==
    /\ Returned("RCC_SetClkStatus")
    /\ arg_Status = ON
    /\ arg_Clk_Type = HSE
    /\ pre["CR"] = {16, 17}
    /\ RCC["CR"] = {16, 17}
    /\ ret = 0

\* the positions of the four wait loops
C14_WaitLoops == {"clk_wait", "sys_wait", "pll_unlock", "pll_lock"}

\* the call is in a wait loop and the hardware condition it polls for does
\* not hold
C14_Unmet ==
    \/ pc = "clk_wait" /\ arg_Status = ON
          /\ arg_Clk_Type + 1 \notin RCC["CR"]
    \/ pc = "sys_wait" /\ Field(RCC["CFGR"], 2, 2) # arg_SYSClkType
    \/ pc = "pll_unlock" /\ 25 \in RCC["CR"]
    \/ pc = "pll_lock" /\ 25 \notin RCC["CR"]

\* C14: while the hardware condition a wait loop polls for does not hold
\* (ready bit not set for RCC_SetClkStatus(c, ON), CFGR[3:2] different from
\* the requested value for RCC_SetSysClk, PLLRDY set for the first wait of
\* RCC_PLL_Config and not set for its second), no step leaves the loop: the
\* call stays in it, has no return code and writes no register; so a call
\* whose condition never comes to hold never returns. No step taken in a
\* wait loop writes a register.
C14_NoTimeout ==
    /\ [][C14_Unmet =>
            (pc' = pc /\ frame' = frame /\ ret' = -1 /\ nw' = nw)]_vars
    /\ [][(pc \in C14_WaitLoops) => (nw' = nw)]_vars

\* RCC_SetSysClk(2) has polled CFGR after its two writes, found SWS
\* different from 2, and is still in its loop
C14_Witness ==
    /\ pc = "sys_wait"
    /\ arg_SYSClkType = 2
    /\ Field(rd, 0, 2) = 2
    /\ Field(rd, 2, 2) # 2
    /\ C14_Unmet

\* the selector values that designate the PLL: the last two of the four
C19_PLLSelections == {SYSPLLP - 1, SYSPLLP}

\* the PLL is the selected system clock source: the selector CFGR[1:0],
\* which only RCC_SetSysClk writes, designates it and the status CFGR[3:2]
\* confirms it
C19_PLLSelected ==
    /\ Field(RCC["CFGR"], 0, 2) \in C19_PLLSelections
    /\ Field(RCC["CFGR"], 2, 2) = Field(RCC["CFGR"], 0, 2)

\* C19: RCC_PLL_Config never clears a set PLLON (CR bit 24) while the PLL is
\* the selected system clock source: in the state its disabling write
\* leaves, with PLLON read as 1 and now 0, the PLL is not selected.
C19_PLLKeptWhileSelected ==
    (arg_fn = "RCC_PLL_Config" /\ pc = "pll_unlock" /\ nw["CR"] = 1
       /\ 24 \in rd /\ 24 \notin RCC["CR"]) =>
        ~C19_PLLSelected

\* C16: on responsive hardware every call of RCC_SetClkStatus, with ON or
\* with OFF, returns 0 in the end.
C16_SetClkReturns ==
    (arg_fn = "RCC_SetClkStatus" /\ pc = "clk_rd") ~> (pc = "ret" /\ ret = 0)

\* the half of C16 for ON alone
C16_EnableReturns ==
    (arg_fn = "RCC_SetClkStatus" /\ pc = "clk_rd" /\ arg_Status = ON)
        ~> (pc = "ret" /\ ret = 0)

\* both contexts have returned success from a gating function on the same
\* register, called for different positions
C15_BothReturned ==
    /\ pc = "ret" /\ ret = 0 /\ arg_fn \in GateFns
    /\ isr_pc = "ret" /\ isr_ret = 0
    /\ GateReg(arg_fn) = GateReg(isr_fn)
    /\ arg_PeripheralName # isr_PeripheralName

\* bit p of v is what function fn was called to make it
C15_TookEffect(fn, p, v) == (p \in v) <=> (fn \in GateEnableFns)

\* C15: when the execution context and an interrupt handler have both
\* returned success from gating functions on different bits of the same
\* register, the bit of the execution context is as requested; the bit of
\* the handler is as requested when the handler ran before the read or
\* after the write of the other call (serialized); and when the handler ran
\* between that read and that write, its bit is back at the value it had
\* when the other call was entered, so that a change it made is lost.
C15_LostUpdate ==
    C15_BothReturned =>
        /\ C15_TookEffect(arg_fn, arg_PeripheralName, RCC[GateReg(arg_fn)])
        /\ isr_at # "gate_wr" =>
              C15_TookEffect(isr_fn, isr_PeripheralName,
                             RCC[GateReg(isr_fn)])
        /\ isr_at = "gate_wr" =>
              (isr_PeripheralName \in RCC[GateReg(isr_fn)]
                 <=> isr_PeripheralName \in pre[GateReg(isr_fn)])

\* both calls have returned success and the handler's bit change is lost:
\* the handler ran between the read and the write of the other call
C15_Witness ==
    /\ C15_BothReturned
    /\ isr_at = "gate_wr"
    /\ ~C15_TookEffect(isr_fn, isr_PeripheralName, RCC[GateReg(isr_fn)])

====
